---- MODULE Spec2Model ----
(***************************************************************************)
(* Geo-RAG for Delhi wards: the ingestion run (data_processing.main), the  *)
(* Streamlit script run (app.py), the retriever (retriever.GeoRetriever)   *)
(* and the query handler of app.main.                                      *)
(*                                                                         *)
(* Strings the code inspects (question, completion, entity) are sequences  *)
(* of characters; a geometry is the set of grid points it contains; files  *)
(* are records with an "exists" flag; a Chroma collection is the set of    *)
(* its (id, document) entries (an embedding is a function of the document  *)
(* and is left out).                                                       *)
(***************************************************************************)
EXTENDS Integers, Sequences, FiniteSets, TLC

\* ------------------------------------------------------------------ bounds
\* Longest raw dataset (number of features) that is explored.
MaxFeatures == 2
\* Longest question / completion (number of characters) that is explored.
MaxLen == 2

\* ------------------------------------------------------------------ data
\* Characters: a letter, the double quote and a blank.
Chars == {"a", "\"", " "}

RECURSIVE StringsUpTo(_)
StringsUpTo(n) ==
    IF n = 0 THEN {<<>>}
    ELSE LET S == StringsUpTo(n - 1)
         IN  S \cup {Append(s, c) : s \in {t \in S : Len(t) = n - 1}, c \in Chars}

Strings == StringsUpTo(MaxLen)

\* Grid points <<x, y>> = <<longitude, latitude>>.
Points == {<<1, 0>>, <<0, 1>>, <<0, 0>>}

\* A feature's geometry: null, or the set of points it contains.  The two
\* polygons are nested, so a point lies in none, one or both of them.
NullGeometry == [isna |-> TRUE, pts |-> {}]
Polygon(pts) == [isna |-> FALSE, pts |-> pts]
Geometries == {NullGeometry, Polygon({<<1, 0>>}), Polygon({<<1, 0>>, <<0, 1>>})}

\* The attributes of the wards of the dataset.
Wards == {[ward_no |-> "58", ward_name |-> "Kalkaji"],
          [ward_no |-> "59", ward_name |-> "Okhla"]}

Features ==
    {[ward_no |-> w.ward_no, ward_name |-> w.ward_name, geometry |-> g] :
        w \in Wards, g \in Geometries}

RECURSIVE SeqsUpTo(_, _)
SeqsUpTo(S, n) ==
    IF n = 0 THEN {<<>>}
    ELSE LET T == SeqsUpTo(S, n - 1)
         IN  T \cup {Append(s, x) : s \in {t \in T : Len(t) = n - 1}, x \in S}

\* The raw GeoJSON files: feature sequences in file order.  collection.add
\* does not take an empty id list, so the datasets explored hold at least one
\* feature with a geometry.
RawFiles ==
    {r \in SeqsUpTo(Features, MaxFeatures) : \E i \in 1..Len(r) : ~r[i].geometry.isna}

\* Files and directories on disk.
NoFile == [exists |-> FALSE, content |-> <<>>]
File(c) == [exists |-> TRUE, content |-> c]

\* The vector store directory: absent, or a Chroma database that holds the
\* named collection or not.
NoStore == [exists |-> FALSE, hasColl |-> FALSE, entries |-> {}]
EmptyStore == [exists |-> TRUE, hasColl |-> FALSE, entries |-> {}]
Store(entries) == [exists |-> TRUE, hasColl |-> TRUE, entries |-> entries]

\* ------------------------------------------------------------------ ingestion helpers
Digit == <<"0", "1", "2", "3", "4", "5", "6", "7", "8", "9">>

\* gdf.index.astype(str): the decimal digits of a row label.
RECURSIVE ToStr(_)
ToStr(n) ==
    IF n < 10 THEN <<Digit[n + 1]>>
    ELSE ToStr(n \div 10) \o <<Digit[(n % 10) + 1]>>

\* row.get(key, default)
Get(row, key, default) == IF key \in DOMAIN row THEN row[key] ELSE default

\* gpd.read_file: one row per feature, labelled 0..m-1 in file order.
ReadFile(raw) ==
    [i \in 1..Len(raw) |->
        [id |-> i - 1, ward_no |-> raw[i].ward_no, ward_name |-> raw[i].ward_name,
         geometry |-> raw[i].geometry]]

NotNa(row) == ~row.geometry.isna

\* gdf[gdf.geometry.notna()]: the rows keep their labels.
DropNullGeometry(g) == SelectSeq(g, NotNa)

ResetIndex_Forgotten(g) == g

\* gdf.reset_index(drop=True): labels 0..n-1 in the current order.
ResetIndex(g) == [i \in 1..Len(g) |-> [g[i] EXCEPT !.id = i - 1]]

\* data_processing.main lines 50-57: the processed table.
Process(raw) == ResetIndex(DropNullGeometry(ReadFile(raw)))

\* create_feature_document: "This is municipal ward number {ward_no}, named
\* {ward_name}, in Delhi."
create_feature_document(row) ==
    [ward_no |-> Get(row, "ward_no", "N/A"),
     ward_name |-> Get(row, "ward_name", "Unnamed Ward")]

\* The (id, document) entries handed to collection.add for a table.
Entries(g) ==
    {[id |-> ToStr(g[i].id), document |-> create_feature_document(g[i])] :
        i \in 1..Len(g)}

Ids(entries) == {e.id : e \in entries}

\* collection.add on a collection that may hold entries already: an id the
\* collection holds keeps its entry, the others are inserted.
AddEntries(old, new) == old \cup {e \in new : e.id \notin Ids(old)}

\* ------------------------------------------------------------------ retrieval helpers
\* The questions a user can submit: app.main requires a non-empty query_text.
Questions == Strings \ {<<>>}

\* What a chat completion call gives: it raises, or it returns a content.
ApiRaised == [raised |-> TRUE, content |-> <<>>]
ApiResults == {ApiRaised} \cup {[raised |-> FALSE, content |-> c] : c \in Strings}
\* The completions explored for the answer.
AnswerApiResults == {r \in ApiResults : Len(r.content) <= 1}

IsSpace(c) == c = " "
NotQuote(c) == c # "\""

RECURSIVE LStrip(_)
LStrip(s) == IF s # <<>> /\ IsSpace(Head(s)) THEN LStrip(Tail(s)) ELSE s

RECURSIVE RStrip(_)
RStrip(s) ==
    IF s # <<>> /\ IsSpace(s[Len(s)]) THEN RStrip(SubSeq(s, 1, Len(s) - 1)) ELSE s

\* str.strip()
Strip(s) == RStrip(LStrip(s))

\* str.replace('"', '')
RemoveQuotes(s) == SelectSeq(s, NotQuote)

\* extract_entity_from_query
extract_entity_from_query(llm, q, api) ==
    IF llm = "None" THEN q
    ELSE IF api.raised THEN q
    ELSE RemoveQuotes(Strip(api.content))

EntityRejected_EmptyOnly(entity, q) == entity = <<>>

\* line 69: not entity_name or entity_name == query
EntityRejected(entity, q) == entity = <<>> \/ entity = q

\* geolocator.geocode: it raises, returns None, or returns a location.
NoLocation == [status |-> "unset", latitude |-> 0, longitude |-> 0]
GeocodeResults ==
    {[status |-> "raised", latitude |-> 0, longitude |-> 0],
     [status |-> "null", latitude |-> 0, longitude |-> 0]}
    \cup {[status |-> "found", latitude |-> p[2], longitude |-> p[1]] : p \in Points}

MakePoint_Swapped(loc) == <<loc.latitude, loc.longitude>>

\* line 79: Point(location.longitude, location.latitude)
MakePoint(loc) == <<loc.longitude, loc.latitude>>

\* geometry.contains(point); a missing geometry contains nothing.
Contains(geometry, pt) == ~geometry.isna /\ pt \in geometry.pts

\* line 82: gdf[gdf.geometry.contains(location_point)]
ContainingWards(g, pt) ==
    LET Hit(row) == Contains(row.geometry, pt) IN SelectSeq(g, Hit)

\* The strings perform_hybrid_retrieval returns as context: a message (with
\* the entity it names, if any) or the joined ward lines.
NoContext == [text |-> "", entity |-> <<>>, lines |-> <<>>]
Message(text) == [text |-> text, entity |-> <<>>, lines |-> <<>>]
NoEntityMsg == Message("Could not identify a clear landmark for a precise location search.")
GeocodeFailedMsg == Message("Could not find the location of the specified landmark.")
ErrorMsg == Message("An error occurred while searching for the location.")
NoWardMsg(entity) ==
    [text |-> "Found the location of {entity_name}, but could not match it to a specific ward.",
     entity |-> entity, lines |-> <<>>]

\* lines 92-98: one line per row of result_gdf, joined by newlines.
WardLine(entity, row) ==
    [entity |-> entity, ward_no |-> Get(row, "ward_no", "N/A"),
     ward_name |-> Get(row, "ward_name", "Unnamed")]
AssembleContext(entity, result) ==
    [text |-> "", entity |-> <<>>,
     lines |-> [i \in 1..Len(result) |-> WardLine(entity, result[i])]]

SearchErrorPropagates == [status |-> "raised", context |-> NoContext]

\* lines 87-89: except Exception around the geocoding and the containment test.
SearchError == [status |-> "returned", context |-> ErrorMsg]

\* get_llm_response
NoAnswer == [fixed |-> "", text |-> <<>>]
FixedAnswer(text) == [fixed |-> text, text |-> <<>>]
LlmNotInitialized == FixedAnswer("LLM client not initialized.")
GenerationFailed ==
    FixedAnswer("Sorry, I encountered an error while trying to generate an answer.")

get_llm_response_Unguarded(llm, api) ==
    IF llm = "None" \/ api.raised THEN GenerationFailed
    ELSE [fixed |-> "", text |-> Strip(api.content)]

get_llm_response(llm, api) ==
    IF llm = "None" THEN LlmNotInitialized
    ELSE IF api.raised THEN GenerationFailed
    ELSE [fixed |-> "", text |-> Strip(api.content)]

NoUnit == [called |-> FALSE, answer |-> NoAnswer]

\* ------------------------------------------------------------------ state
VARIABLES
    rawFile,        \* RAW_DATA_PATH
    corpusFile,     \* GDF_PICKLE_PATH (the persisted corpus)
    vectorStore,    \* VECTOR_STORE_DIR with CHROMA_COLLECTION_NAME
    ingPc,          \* position of the ingestion run
    ingCaller,      \* "cli" (python data_processing.py) or "app"
    ingGdf,         \* main's local gdf
    ingAborted,     \* download_data_if_needed returned False in this run
    ingReturn,      \* what main hands to its caller ("pending" while it runs)
    ingWrites,      \* the artifacts this run has written or deleted
    appPc,          \* position of the Streamlit script run
    appGdf,         \* initialize_database_and_retriever's local gdf
    memCollection,  \* the collection of the in-memory Chroma client
    rpc,            \* position of a query process building its retriever
    gdf,            \* the corpus the query process loaded
    collection,     \* the entries GeoRetriever.__init__ found in the store
    llm_client,     \* self.llm_client: "Together" or "None"
    hasKey,         \* os.environ holds TOGETHER_API_KEY
    qpc,            \* position of the query handler of app.main
    query,          \* query_text
    entity_name,    \* what extract_entity_from_query returned last
    echoed,         \* the completion of this query equalled the question
    location,       \* what geolocator.geocode returned
    searchRaised,   \* "geocode" / "contains" raised in this query, or "no"
    retStatus,      \* perform_hybrid_retrieval: "pending", "returned", "raised"
    retContext,     \* the context string it returned
    retGdf,         \* the ward table it returned
    geocodeCalls,   \* calls of geolocator.geocode in this query
    scanCalls,      \* containment scans in this query
    genCalls,       \* calls of get_llm_response in this query
    genContext,     \* the context get_llm_response was called with
    answer,         \* llm_answer
    uiMsg,          \* what app.main showed for this query
    unit            \* a direct call of get_llm_response and its result

diskVars == <<rawFile, corpusFile, vectorStore>>
ingVars == <<ingPc, ingCaller, ingGdf, ingAborted, ingReturn, ingWrites>>
appVars == <<appPc, appGdf, memCollection>>
retrVars == <<rpc, gdf, collection, llm_client>>
queryVars ==
    <<hasKey, qpc, query, entity_name, echoed, location, searchRaised, retStatus,
      retContext, retGdf, geocodeCalls, scanCalls, genCalls, genContext, answer,
      uiMsg, unit>>
vars == <<diskVars, ingVars, appVars, retrVars, queryVars>>

\* ------------------------------------------------------------------ initial states
\* What an earlier ingestion of the raw file p left on disk.
PersistedCorpus(p) == File(Process(p))
PersistedStore(p) == Store(Entries(Process(p)))

\* The datasets an earlier deployment may have ingested.
EarlierFiles == {p \in RawFiles : Len(p) <= 1}

DiskInit ==
    /\ rawFile \in {NoFile} \cup {File(r) : r \in RawFiles}
    /\ \/ corpusFile = NoFile /\ vectorStore = NoStore
       \/ \E p \in EarlierFiles :
            corpusFile = PersistedCorpus(p) /\ vectorStore = PersistedStore(p)

IngInit ==
    /\ ingPc = "idle"
    /\ ingCaller = "cli"
    /\ ingGdf = <<>>
    /\ ingAborted = FALSE
    /\ ingReturn = "pending"
    /\ ingWrites = {}

AppInit ==
    /\ appPc = "start"
    /\ appGdf = <<>>
    /\ memCollection = EmptyStore

RetrInit ==
    /\ rpc = "idle"
    /\ gdf = <<>>
    /\ collection = {}
    /\ llm_client = "None"

\* No query is being handled.
QueryIdle ==
    /\ qpc = "idle"
    /\ query = <<>>
    /\ entity_name = <<>>
    /\ echoed = FALSE
    /\ location = NoLocation
    /\ searchRaised = "no"
    /\ retStatus = "pending"
    /\ retContext = NoContext
    /\ retGdf = <<>>
    /\ geocodeCalls = 0
    /\ scanCalls = 0
    /\ genCalls = 0
    /\ genContext = NoContext
    /\ answer = NoAnswer
    /\ uiMsg = ""
    /\ unit = NoUnit

\* The processes of Spec run with the key in their environment; the query
\* handler's check of it is explored under QuerySpec.
Init == DiskInit /\ IngInit /\ AppInit /\ RetrInit /\ QueryIdle /\ hasKey = TRUE

\* ------------------------------------------------------------------ ingestion: data_processing.main
\* What main hands to its caller: `return` after a failed download and the
\* end of the function body both return None.
MainReturn(downloaded) == "None"

\* python data_processing.py
IngStartCli ==
    /\ ingPc = "idle"
    /\ ingPc' = "download"
    /\ ingCaller' = "cli"
    /\ UNCHANGED <<ingGdf, ingAborted, ingReturn, ingWrites>>
    /\ UNCHANGED <<diskVars, appVars, retrVars>>
    /\ UNCHANGED queryVars

\* download_data_if_needed: the file is there.
DownloadSkip ==
    /\ ingPc = "download"
    /\ rawFile.exists
    /\ ingPc' = "load"
    /\ UNCHANGED <<ingCaller, ingGdf, ingAborted, ingReturn, ingWrites>>
    /\ UNCHANGED <<diskVars, appVars, retrVars>>
    /\ UNCHANGED queryVars

\* download_data_if_needed: requests.get succeeds and the content is written.
DownloadOk ==
    /\ ingPc = "download"
    /\ ~rawFile.exists
    /\ \E c \in RawFiles : rawFile' = File(c)
    /\ ingWrites' = ingWrites \cup {"raw"}
    /\ ingPc' = "load"
    /\ UNCHANGED <<ingCaller, ingGdf, ingAborted, ingReturn>>
    /\ UNCHANGED <<corpusFile, vectorStore, appVars, retrVars>>
    /\ UNCHANGED queryVars

\* download_data_if_needed: RequestException, returns False; main returns.
DownloadFails ==
    /\ ingPc = "download"
    /\ ~rawFile.exists
    /\ ingAborted' = TRUE
    /\ ingReturn' = MainReturn(FALSE)
    /\ ingPc' = "done"
    /\ UNCHANGED <<ingCaller, ingGdf, ingWrites>>
    /\ UNCHANGED <<diskVars, appVars, retrVars>>
    /\ UNCHANGED queryVars

\* lines 50-66: read, drop null geometries, reindex, documents, embeddings.
IngLoad ==
    /\ ingPc = "load"
    /\ ingGdf' = Process(rawFile.content)
    /\ ingPc' = "rmtree"
    /\ UNCHANGED <<ingCaller, ingAborted, ingReturn, ingWrites>>
    /\ UNCHANGED <<diskVars, appVars, retrVars>>
    /\ UNCHANGED queryVars

\* lines 69-70: shutil.rmtree(VECTOR_STORE_DIR) if it exists.
IngRmtree ==
    /\ ingPc = "rmtree"
    /\ vectorStore' = NoStore
    /\ ingWrites' = IF vectorStore.exists THEN ingWrites \cup {"store"} ELSE ingWrites
    /\ ingPc' = "create"
    /\ UNCHANGED <<ingCaller, ingGdf, ingAborted, ingReturn>>
    /\ UNCHANGED <<rawFile, corpusFile, appVars, retrVars>>
    /\ UNCHANGED queryVars

\* lines 72-73: PersistentClient(path) and get_or_create_collection(name).
IngCreate ==
    /\ ingPc = "create"
    /\ vectorStore' = IF vectorStore.hasColl THEN vectorStore ELSE Store({})
    /\ ingWrites' = ingWrites \cup {"store"}
    /\ ingPc' = "add"
    /\ UNCHANGED <<ingCaller, ingGdf, ingAborted, ingReturn>>
    /\ UNCHANGED <<rawFile, corpusFile, appVars, retrVars>>
    /\ UNCHANGED queryVars

\* lines 76-78: collection.add(ids, embeddings, documents).
IngAdd ==
    /\ ingPc = "add"
    /\ vectorStore' = Store(AddEntries(vectorStore.entries, Entries(ingGdf)))
    /\ ingPc' = "save"
    /\ UNCHANGED <<ingCaller, ingGdf, ingAborted, ingReturn, ingWrites>>
    /\ UNCHANGED <<rawFile, corpusFile, appVars, retrVars>>
    /\ UNCHANGED queryVars

\* lines 80-85: the table, without its document column, goes to the Parquet file.
IngSave ==
    /\ ingPc = "save"
    /\ corpusFile' = File(ingGdf)
    /\ ingWrites' = ingWrites \cup {"corpus"}
    /\ ingReturn' = MainReturn(TRUE)
    /\ ingPc' = "done"
    /\ UNCHANGED <<ingCaller, ingGdf, ingAborted>>
    /\ UNCHANGED <<rawFile, vectorStore, appVars, retrVars>>
    /\ UNCHANGED queryVars

IngReset ==
    /\ ingPc' = "idle"
    /\ ingGdf' = <<>>
    /\ ingAborted' = FALSE
    /\ ingReturn' = "pending"
    /\ ingWrites' = {}

\* The command-line run ends.
IngExitCli ==
    /\ ingPc = "done"
    /\ ingCaller = "cli"
    /\ IngReset
    /\ UNCHANGED <<ingCaller, diskVars, appVars, retrVars>>
    /\ UNCHANGED queryVars

\* ------------------------------------------------------------------ the Streamlit script run: app.py
\* def __init__(self): the positional arguments GeoRetriever accepts.
RetrieverInitArgs == 0
\* retriever.GeoRetriever(collection): the positional arguments app.py passes.
AppCtorArgs == 1

\* The call binds: otherwise Python raises TypeError before __init__ runs.
CallBinds(passed, accepted) == passed = accepted

\* lines 32-37, corpus missing: run_data_processing() is called.
AppStartIngest ==
    /\ appPc = "start"
    /\ ~corpusFile.exists
    /\ ingPc = "idle"
    /\ ingPc' = "download"
    /\ ingCaller' = "app"
    /\ appPc' = "ingesting"
    /\ UNCHANGED <<ingGdf, ingAborted, ingReturn, ingWrites>>
    /\ UNCHANGED <<appGdf, memCollection, diskVars, retrVars>>
    /\ UNCHANGED queryVars

\* lines 37-38: run_data_processing() returned; its result is not looked at,
\* st.success("Data preparation complete!") is shown.
AppIngestReturns ==
    /\ appPc = "ingesting"
    /\ ingPc = "done"
    /\ ingCaller = "app"
    /\ ingReturn = "None"
    /\ IngReset
    /\ appPc' = "prepared"
    /\ UNCHANGED <<ingCaller, appGdf, memCollection, diskVars, retrVars>>
    /\ UNCHANGED queryVars

\* line 39: st.rerun().
AppRerun ==
    /\ appPc = "prepared"
    /\ appPc' = "start"
    /\ UNCHANGED <<appGdf, memCollection, diskVars, ingVars, retrVars>>
    /\ UNCHANGED queryVars

\* line 32 false, lines 97 and 48: gpd.read_parquet(GDF_PICKLE_PATH).
AppLoad ==
    /\ appPc = "start"
    /\ corpusFile.exists
    /\ appGdf' = corpusFile.content
    /\ appPc' = "build"
    /\ UNCHANGED <<memCollection, diskVars, ingVars, retrVars>>
    /\ UNCHANGED queryVars

\* lines 51-61: chromadb.Client() is the process-wide in-memory database;
\* get_or_create_collection returns the collection an earlier run of this
\* function created, and collection.add inserts into it.
AppBuild ==
    /\ appPc = "build"
    /\ memCollection' = Store(AddEntries(memCollection.entries, Entries(appGdf)))
    /\ appPc' = "construct"
    /\ UNCHANGED <<appGdf, diskVars, ingVars, retrVars>>
    /\ UNCHANGED queryVars

\* line 64: retriever.GeoRetriever(collection); a TypeError leaves
\* initialize_database_and_retriever and main, and nothing is cached.
AppConstruct ==
    /\ appPc = "construct"
    /\ appPc' = IF CallBinds(AppCtorArgs, RetrieverInitArgs) THEN "ready" ELSE "init_failed"
    /\ UNCHANGED <<appGdf, memCollection, diskVars, ingVars, retrVars>>
    /\ UNCHANGED queryVars

\* The next script run of the same process (a widget event, a new session).
AppNextRun ==
    /\ appPc \in {"ready", "init_failed"}
    /\ appPc' = "start"
    /\ appGdf' = <<>>
    /\ UNCHANGED <<memCollection, diskVars, ingVars, retrVars>>
    /\ UNCHANGED queryVars

\* ------------------------------------------------------------------ a query process: retriever.GeoRetriever
\* The process loads the persisted corpus (gpd.read_parquet) ...
RetrLoadCorpus ==
    /\ rpc = "idle"
    /\ corpusFile.exists
    /\ gdf' = corpusFile.content
    /\ rpc' = "loaded"
    /\ UNCHANGED <<collection, llm_client, diskVars, ingVars, appVars>>
    /\ UNCHANGED queryVars

\* ... and constructs GeoRetriever(): PersistentClient(path) creates the
\* database when the directory is missing, get_collection raises when the
\* collection is; Together(...) raising leaves llm_client None.
RetrieverInit ==
    /\ rpc = "loaded"
    /\ vectorStore' = IF vectorStore.exists THEN vectorStore ELSE EmptyStore
    /\ IF vectorStore.hasColl
         THEN /\ collection' = vectorStore.entries
              /\ \E built \in BOOLEAN :
                    llm_client' = IF hasKey /\ built THEN "Together" ELSE "None"
              /\ rpc' = "ready"
         ELSE /\ rpc' = "failed"
              /\ UNCHANGED <<collection, llm_client>>
    /\ UNCHANGED <<gdf, rawFile, corpusFile, ingVars, appVars>>
    /\ UNCHANGED queryVars

\* The query process ends.
RetrExit ==
    /\ rpc \in {"ready", "failed"}
    /\ rpc' = "idle"
    /\ gdf' = <<>>
    /\ collection' = {}
    /\ llm_client' = "None"
    /\ UNCHANGED <<diskVars, ingVars, appVars>>
    /\ UNCHANGED queryVars

\* ------------------------------------------------------------------ the query handler: app.main and perform_hybrid_retrieval
otherVars == <<diskVars, ingVars, appVars, retrVars>>

\* app.main lines 108-111: Search pressed, no TOGETHER_API_KEY in the environment.
SubmitNoKey ==
    /\ qpc = "idle"
    /\ rpc = "ready"
    /\ ~hasKey
    /\ \E q \in Questions : query' = q
    /\ uiMsg' = "key_missing"
    /\ unit' = NoUnit
    /\ qpc' = "done"
    /\ UNCHANGED <<hasKey, entity_name, echoed, location, searchRaised, retStatus,
                   retContext, retGdf, geocodeCalls, scanCalls, genCalls, genContext,
                   answer>>
    /\ UNCHANGED otherVars

\* app.main lines 108-114: Search pressed, perform_hybrid_retrieval is called.
Submit ==
    /\ qpc = "idle"
    /\ rpc = "ready"
    /\ hasKey
    /\ \E q \in Questions : query' = q
    /\ unit' = NoUnit
    /\ qpc' = "extract"
    /\ UNCHANGED <<hasKey, entity_name, echoed, location, searchRaised, retStatus,
                   retContext, retGdf, geocodeCalls, scanCalls, genCalls, genContext,
                   answer, uiMsg>>
    /\ UNCHANGED otherVars

\* retriever.py line 67: entity_name = self.extract_entity_from_query(query)
Extract ==
    /\ qpc = "extract"
    /\ \E api \in (IF llm_client = "None" THEN {ApiRaised} ELSE ApiResults) :
        /\ entity_name' = extract_entity_from_query(llm_client, query, api)
        /\ echoed' = (llm_client # "None" /\ ~api.raised /\ api.content = query)
    /\ qpc' = "gate"
    /\ UNCHANGED <<hasKey, query, location, searchRaised, retStatus, retContext, retGdf,
                   geocodeCalls, scanCalls, genCalls, genContext, answer, uiMsg, unit>>
    /\ UNCHANGED otherVars

\* lines 69-71
Gate ==
    /\ qpc = "gate"
    /\ IF EntityRejected(entity_name, query)
         THEN /\ retStatus' = "returned"
              /\ retContext' = NoEntityMsg
              /\ qpc' = "returned"
         ELSE /\ qpc' = "geocode"
              /\ UNCHANGED <<retStatus, retContext>>
    /\ UNCHANGED <<hasKey, query, entity_name, echoed, location, searchRaised, retGdf,
                   geocodeCalls, scanCalls, genCalls, genContext, answer, uiMsg, unit>>
    /\ UNCHANGED otherVars

\* lines 73-77 (and 87-89 when geocode raises)
Geocode ==
    /\ qpc = "geocode"
    /\ geocodeCalls' = geocodeCalls + 1
    /\ \E g \in GeocodeResults :
        /\ location' = g
        /\ CASE g.status = "raised" ->
                    /\ searchRaised' = "geocode"
                    /\ retStatus' = SearchError.status
                    /\ retContext' = SearchError.context
                    /\ qpc' = "returned"
             [] g.status = "null" ->
                    /\ retStatus' = "returned"
                    /\ retContext' = GeocodeFailedMsg
                    /\ qpc' = "returned"
                    /\ UNCHANGED searchRaised
             [] OTHER ->
                    /\ qpc' = "contains"
                    /\ UNCHANGED <<searchRaised, retStatus, retContext>>
    /\ UNCHANGED <<hasKey, query, entity_name, echoed, retGdf, scanCalls, genCalls,
                   genContext, answer, uiMsg, unit>>
    /\ UNCHANGED otherVars

\* lines 79-85 (and 87-89 when the containment test raises)
ContainmentScan ==
    /\ qpc = "contains"
    /\ scanCalls' = scanCalls + 1
    /\ \E raises \in BOOLEAN :
        LET result_gdf == ContainingWards(gdf, MakePoint(location)) IN
        IF raises
        THEN /\ searchRaised' = "contains"
             /\ retStatus' = SearchError.status
             /\ retContext' = SearchError.context
             /\ qpc' = "returned"
             /\ UNCHANGED retGdf
        ELSE IF result_gdf = <<>>
        THEN /\ retStatus' = "returned"
             /\ retContext' = NoWardMsg(entity_name)
             /\ qpc' = "returned"
             /\ UNCHANGED <<searchRaised, retGdf>>
        ELSE /\ retGdf' = result_gdf
             /\ qpc' = "assemble"
             /\ UNCHANGED <<searchRaised, retStatus, retContext>>
    /\ UNCHANGED <<hasKey, query, entity_name, echoed, location, geocodeCalls, genCalls,
                   genContext, answer, uiMsg, unit>>
    /\ UNCHANGED otherVars

\* lines 92-99
Assemble ==
    /\ qpc = "assemble"
    /\ retContext' = AssembleContext(entity_name, retGdf)
    /\ retStatus' = "returned"
    /\ qpc' = "returned"
    /\ UNCHANGED <<hasKey, query, entity_name, echoed, location, searchRaised, retGdf,
                   geocodeCalls, scanCalls, genCalls, genContext, answer, uiMsg, unit>>
    /\ UNCHANGED otherVars

\* app.main lines 114-117: an exception of the call leaves main; an empty
\* result_gdf gives the warning.
AfterRetrieval ==
    /\ qpc = "returned"
    /\ IF retStatus = "raised" THEN uiMsg' = "exception" /\ qpc' = "done"
       ELSE IF retGdf = <<>> THEN uiMsg' = "no_ward_warning" /\ qpc' = "done"
       ELSE uiMsg' = uiMsg /\ qpc' = "generate"
    /\ UNCHANGED <<hasKey, query, entity_name, echoed, location, searchRaised, retStatus,
                   retContext, retGdf, geocodeCalls, scanCalls, genCalls, genContext,
                   answer, unit>>
    /\ UNCHANGED otherVars

\* app.main lines 119-121: get_llm_response(context=context_str, query=query_text)
Generate ==
    /\ qpc = "generate"
    /\ genCalls' = genCalls + 1
    /\ genContext' = retContext
    /\ \E api \in AnswerApiResults : answer' = get_llm_response(llm_client, api)
    /\ uiMsg' = "answer"
    /\ qpc' = "done"
    /\ UNCHANGED <<hasKey, query, entity_name, echoed, location, searchRaised, retStatus,
                   retContext, retGdf, geocodeCalls, scanCalls, unit>>
    /\ UNCHANGED otherVars

\* The script run ends; the locals of the query are gone.
Finish ==
    /\ qpc = "done"
    /\ qpc' = "idle"
    /\ query' = <<>>
    /\ echoed' = FALSE
    /\ location' = NoLocation
    /\ searchRaised' = "no"
    /\ retStatus' = "pending"
    /\ retContext' = NoContext
    /\ retGdf' = <<>>
    /\ geocodeCalls' = 0
    /\ scanCalls' = 0
    /\ genCalls' = 0
    /\ genContext' = NoContext
    /\ answer' = NoAnswer
    /\ uiMsg' = ""
    /\ UNCHANGED <<hasKey, entity_name, unit>>
    /\ UNCHANGED otherVars

\* get_llm_response called on its own, outside a query.
DirectGetLlmResponse ==
    /\ qpc = "idle"
    /\ rpc = "ready"
    /\ ~unit.called
    /\ \E api \in AnswerApiResults :
        unit' = [called |-> TRUE, answer |-> get_llm_response(llm_client, api)]
    /\ UNCHANGED <<hasKey, qpc, query, entity_name, echoed, location, searchRaised,
                   retStatus, retContext, retGdf, geocodeCalls, scanCalls, genCalls,
                   genContext, answer, uiMsg>>
    /\ UNCHANGED otherVars

\* A query process whose retriever is built, over any persisted corpus.
NoNullGeometry(raw) == \A i \in 1..Len(raw) : ~raw[i].geometry.isna

QueryInit ==
    /\ \E r \in {x \in RawFiles : NoNullGeometry(x)} :
        /\ rawFile = File(r)
        /\ corpusFile = PersistedCorpus(r)
        /\ vectorStore = PersistedStore(r)
        /\ gdf = Process(r)
        /\ collection = Entries(Process(r))
    /\ rpc = "ready"
    /\ hasKey \in BOOLEAN
    /\ llm_client \in (IF hasKey THEN {"Together", "None"} ELSE {"None"})
    /\ IngInit
    /\ AppInit
    /\ QueryIdle

QueryNext ==
    \/ SubmitNoKey
    \/ Submit
    \/ Extract
    \/ Gate
    \/ Geocode
    \/ ContainmentScan
    \/ Assemble
    \/ AfterRetrieval
    \/ Generate
    \/ Finish
    \/ DirectGetLlmResponse

QuerySpec == QueryInit /\ [][QueryNext]_vars

\* ------------------------------------------------------------------ specification
Next ==
    \/ IngStartCli
    \/ DownloadSkip
    \/ DownloadOk
    \/ DownloadFails
    \/ IngLoad
    \/ IngRmtree
    \/ IngCreate
    \/ IngAdd
    \/ IngSave
    \/ IngExitCli
    \/ AppStartIngest
    \/ AppIngestReturns
    \/ AppRerun
    \/ AppLoad
    \/ AppBuild
    \/ AppConstruct
    \/ AppNextRun
    \/ RetrLoadCorpus
    \/ RetrieverInit
    \/ RetrExit

Spec == Init /\ [][Next]_vars

\* ------------------------------------------------------------------ claims about ingestion and startup (Spec)
\* An ingestion run has returned after a failed download.
DownloadAborted == ingPc = "done" /\ ingAborted

\* An ingestion run has gone through to its last line.
IngestionCompleted == ingPc = "done" /\ ~ingAborted

\* C3: when the raw dataset is absent and the download fails, the ingestion
\* run ends as a fatal error its caller can see (not the None a completed run
\* returns), and it has written or deleted no raw file, corpus file or
\* vector store.
C3_DownloadFailureIsFatal ==
    DownloadAborted => (ingReturn # "None" /\ ingWrites = {})

\* C4: a query process never finds the vector store deleted or without its
\* collection, and the index it opens is the index of the corpus it loaded.
C4_NoPartialRebuildObserved ==
    /\ rpc # "failed"
    /\ rpc = "ready" => collection = Entries(gdf)

\* The entries a collection must hold after a build over the table g: one
\* per document, their ids the row labels as strings, nothing else.
HoldsExactly(entries, g) ==
    /\ Cardinality(entries) = Len(g)
    /\ Ids(entries) = {ToStr(g[i].id) : i \in 1..Len(g)}
    /\ \A e \in entries :
         \E i \in 1..Len(g) :
            e.id = ToStr(g[i].id) /\ e.document = create_feature_document(g[i])

\* C7: after every index build, on disk (data_processing.main) or in memory
\* (initialize_database_and_retriever), the named collection holds exactly
\* the entries of that build and nothing of an earlier one.
C7_CollectionIsLastBuild ==
    /\ (ingPc = "save" \/ IngestionCompleted) =>
         (vectorStore.hasColl /\ HoldsExactly(vectorStore.entries, ingGdf))
    /\ appPc = "construct" => HoldsExactly(memCollection.entries, appGdf)

\* The number of features with a geometry among the first k of a raw file.
KeptUpTo(raw, k) == Cardinality({j \in 1..k : ~raw[j].geometry.isna})

\* C8: every persisted corpus holds only rows with a geometry, labelled
\* 0..n-1 in order; and the corpus a completed run has just written holds the
\* features of the raw file that have a geometry, in file order.
C8_PersistedCorpusDense ==
    /\ corpusFile.exists =>
         \A i \in 1..Len(corpusFile.content) :
            /\ ~corpusFile.content[i].geometry.isna
            /\ corpusFile.content[i].id = i - 1
    /\ IngestionCompleted =>
         LET raw == rawFile.content
             rows == corpusFile.content
         IN  /\ corpusFile.exists
             /\ Len(rows) = KeptUpTo(raw, Len(raw))
             /\ \A k \in 1..Len(raw) :
                  ~raw[k].geometry.isna =>
                     LET row == rows[KeptUpTo(raw, k)]
                     IN  /\ row.ward_no = raw[k].ward_no
                         /\ row.ward_name = raw[k].ward_name
                         /\ row.geometry = raw[k].geometry

\* C8 witness: a completed run over a raw file whose first feature has no
\* geometry and whose second has one.
C8_Witness ==
    /\ IngestionCompleted
    /\ Len(rawFile.content) >= 2
    /\ rawFile.content[1].geometry.isna
    /\ ~rawFile.content[2].geometry.isna
    /\ Len(corpusFile.content) >= 1

\* C10: the app reports the data preparation as complete only when the
\* corpus file exists, and its initialization does not fail: it ends ready,
\* with one in-memory entry per corpus row.
C10_StartupReachesReady ==
    /\ appPc = "prepared" => corpusFile.exists
    /\ appPc # "init_failed"
    /\ appPc = "ready" => HoldsExactly(memCollection.entries, appGdf)

\* ------------------------------------------------------------------ claims about a query (QuerySpec)
\* extract_entity_from_query has returned in this query.
Extracted ==
    /\ qpc \in {"gate", "geocode", "contains", "assemble", "returned", "generate", "done"}
    /\ uiMsg # "key_missing"

\* perform_hybrid_retrieval is past its check of the entity (line 69).
PastGate == Extracted /\ qpc # "gate"

\* perform_hybrid_retrieval returned the outcome `msg` with no wards.
ReturnedEmpty(msg) == retStatus = "returned" /\ retContext = msg /\ retGdf = <<>>

\* C1: if the completion equals the question verbatim, or the extracted
\* entity is empty, the query ends with the "could not identify a clear
\* landmark" outcome, no wards and no geocoding call.
C1_EchoShortCircuits ==
    (PastGate /\ (echoed \/ entity_name = <<>>)) =>
        (ReturnedEmpty(NoEntityMsg) /\ geocodeCalls = 0)

\* With llm_client None: get_llm_response returns its fixed string, nothing
\* raises, and a query ends without a geocoding or generation call, either
\* refused for the missing key or with the "no clear landmark" outcome.
UnavailableCompletes ==
    /\ unit.called => unit.answer = LlmNotInitialized
    /\ retStatus # "raised"
    /\ uiMsg # "exception"
    /\ qpc = "done" =>
         /\ uiMsg \in {"key_missing", "no_ward_warning"}
         /\ geocodeCalls = 0
         /\ genCalls = 0
         /\ uiMsg = "no_ward_warning" => ReturnedEmpty(NoEntityMsg)

\* C2 as amended: with llm_client None, extract_entity_from_query returns
\* the question itself, get_llm_response returns "LLM client not
\* initialized.", neither raises, and the query runs to its end.
C2_UnavailableDegrades ==
    llm_client = "None" =>
        /\ Extracted => entity_name = query
        /\ UnavailableCompletes

\* C2 witness: with llm_client None a query went through extraction and
\* ended, and get_llm_response was then called.
C2_Witness ==
    /\ llm_client = "None"
    /\ unit.called
    /\ entity_name # <<>>

\* C2 as stated: with llm_client None, extract_entity_from_query returns a
\* fixed string (the same for every question: what it returns for the next
\* question is what it returned for the last), get_llm_response returns a
\* fixed string, and the query runs to its end.
C2_FixedFallbackStrings ==
    [][/\ (llm_client = "None" /\ qpc = "extract" /\ entity_name # <<>>) =>
            entity_name' = entity_name
       /\ llm_client = "None" => UnavailableCompletes']_vars

\* The containment scan of this query ran to its end and the call returned.
ScanCompleted == retStatus = "returned" /\ scanCalls = 1 /\ searchRaised = "no"

\* Row i of the loaded corpus contains the geocoded point.
HoldsPoint(i) ==
    /\ ~gdf[i].geometry.isna
    /\ <<location.longitude, location.latitude>> \in gdf[i].geometry.pts

\* C5: when the containment scan completes, the returned wards are exactly
\* the corpus rows whose geometry contains the geocoded point, in corpus
\* order, and the context has one line per returned ward, in that order,
\* with the ward's ward_no and ward_name.
C5_ContainingWardsAndContext ==
    ScanCompleted =>
        /\ \A i \in 1..Len(gdf) :
             HoldsPoint(i) <=> (\E j \in 1..Len(retGdf) : retGdf[j] = gdf[i])
        /\ \A j \in 1..Len(retGdf) :
             \E i \in 1..Len(gdf) : retGdf[j] = gdf[i] /\ HoldsPoint(i)
        /\ \A j, k \in 1..Len(retGdf) : j < k => retGdf[j].id < retGdf[k].id
        /\ Len(retContext.lines) = Len(retGdf)
        /\ \A j \in 1..Len(retGdf) :
             /\ retContext.lines[j].ward_no = retGdf[j].ward_no
             /\ retContext.lines[j].ward_name = retGdf[j].ward_name
             /\ retContext.lines[j].entity = entity_name

\* C5 witness: of two wards only the second contains the point; it is the
\* single ward returned.
C5_Witness ==
    /\ ScanCompleted
    /\ Len(gdf) = 2
    /\ Len(retGdf) = 1
    /\ retGdf[1].id = 1
    /\ gdf[1].geometry # gdf[2].geometry

\* C6: an exception of the geocoding call or of the containment test never
\* leaves perform_hybrid_retrieval, it gives the "error occurred" outcome;
\* and each outcome that is not a match returns its message and no wards.
C6_NoMatchOutcomes ==
    /\ retStatus # "raised"
    /\ uiMsg # "exception"
    /\ searchRaised # "no" => ReturnedEmpty(ErrorMsg)
    /\ retStatus = "returned" =>
         /\ (entity_name = <<>> \/ entity_name = query) => ReturnedEmpty(NoEntityMsg)
         /\ location.status = "null" => ReturnedEmpty(GeocodeFailedMsg)
         /\ (ScanCompleted /\ \A i \in 1..Len(gdf) : ~HoldsPoint(i)) =>
                ReturnedEmpty(NoWardMsg(entity_name))

\* C6 witness: the containment test raised and the call returned.
C6_Witness == searchRaised = "contains" /\ retStatus = "returned" /\ qpc = "done"

\* C9: in one query the geocoder is called at most once and only with a
\* non-empty entity that differs from the question; the containment scan
\* runs only on a location the geocoder found; get_llm_response is called at
\* most once, only after the retrieval returned wards, and with its context.
C9_CallsOrderedAndGated ==
    /\ geocodeCalls <= 1
    /\ genCalls <= 1
    /\ (geocodeCalls >= 1 \/ qpc = "geocode") =>
         (Extracted /\ entity_name # <<>> /\ entity_name # query)
    /\ (scanCalls >= 1 \/ qpc = "contains") =>
         (geocodeCalls = 1 /\ location.status = "found")
    /\ (genCalls >= 1 \/ qpc = "generate") =>
         (retStatus = "returned" /\ retGdf # <<>> /\ scanCalls = 1)
    /\ genCalls >= 1 => genContext = retContext

\* C9 witness: a query got its answer from get_llm_response.
C9_Witness == genCalls = 1 /\ uiMsg = "answer" /\ geocodeCalls = 1 /\ scanCalls = 1

====
